---- MODULE Spec2Model ----
(***************************************************************************)
(* Model of server/services/mlTrainer.py: the `train` and `predict`        *)
(* commands of the AI filter, run as short-lived processes that share the  *)
(* model directory, the model artifact and the status file.                *)
(*                                                                         *)
(* Numbers: a probability is kept in percent (50 stands for 0.5).          *)
(* A row of the dataset X is kept as the position, in the samples file,    *)
(* of the sample whose feature vector the row holds.                       *)
(***************************************************************************)
EXTENDS Integers, Sequences, FiniteSets, TLC

\* ------------------------------------------------------------------ bounds
MaxSamples == 80
MaxPatternLen == 3
MaxPresent == 2

\* ------------------------------------------------------ program constants
MinCompleteSamples == 50
FoldDivisor == 20
MaxFolds == 5
DefaultNeutral == 50
DefaultZero == 0
FallbackScore == 50

\* --------------------------------------------------------------- processes
Trainers == {"t1", "t2"}
Predictors == {"p1"}
Procs == Trainers \cup Predictors
PriorRun == "t0"
NoRun == "none"

\* ------------------------------------------------------- feature vectorizer
FieldNames ==
    << "rsi14", "macdLine", "macdSignal", "macdHist", "bbUpper", "bbMiddle",
       "bbLower", "atr14", "ema12", "ema26", "volume24hChange",
       "priceChange1h", "priceChange4h", "priceChange24h", "spreadPct",
       "confidence" >>

FieldSet == { FieldNames[i] : i \in 1..Len(FieldNames) }

\* A JSON value: a number (or anything float() accepts) or a value float()
\* rejects (null, a non-numeric string, a list).
Num(n) == [num |-> TRUE, v |-> n]
NonNumeric == [num |-> FALSE, v |-> 0]

\* dict.get(key, default)
Get(features, key, default) ==
    IF key \in DOMAIN features THEN features[key] ELSE Num(default)

\* A parsed JSON document: an object (a mapping) or something else.
JsonObject(m) == [kind |-> "object", map |-> m]
JsonOther == [kind |-> "other", map |-> << >>]
\* A JSON text: well formed (denoting a document) or malformed.
JsonText(doc) == [kind |-> "text", wellFormed |-> TRUE, doc |-> doc]
BadText == [kind |-> "text", wellFormed |-> FALSE, doc |-> JsonOther]

\* The outcome of an expression that may raise.
Ok(v) == [ok |-> TRUE, val |-> v]
Raised == [ok |-> FALSE, val |-> << >>]

\* json.loads
JsonLoads(text) == IF text.wellFormed THEN Ok(text.doc) ELSE Raised

\* float(x) of every entry of a list literal: raises if any entry raises.
FloatAll(vals) ==
    IF \A i \in 1..Len(vals) : vals[i].num
    THEN Ok([i \in 1..Len(vals) |-> vals[i].v])
    ELSE Raised

\* extract_features_from_sample, lines 20-43.  featuresJson is absent
\* (kind "none"), a mapping already, or a text to parse.
SampleVector(features) ==
    FloatAll(<<
        Get(features, "rsi14", 50),
        Get(features, "macdLine", 0),
        Get(features, "macdSignal", 0),
        Get(features, "macdHist", 0),
        Get(features, "bbUpper", 0),
        Get(features, "bbMiddle", 0),
        Get(features, "bbLower", 0),
        Get(features, "atr14", 0),
        Get(features, "ema12", 0),
        Get(features, "ema26", 0),
        Get(features, "volume24hChange", 0),
        Get(features, "priceChange1h", 0),
        Get(features, "priceChange4h", 0),
        Get(features, "priceChange24h", 0),
        Get(features, "spreadPct", 0),
        Get(features, "confidence", 50) >>)

extract_features_from_sample(sample) ==
    LET fj == sample.featuresJson
        doc == IF fj.kind = "none" THEN Ok(JsonObject(<< >>))
               ELSE IF fj.kind = "text" THEN JsonLoads(fj)
               ELSE Ok(fj)
    IN  IF ~doc.ok THEN Raised
        ELSE IF doc.val.kind # "object" THEN Raised
        ELSE SampleVector(doc.val.map)

\* The list literal with the two price-change windows exchanged.
PredictVectorSwapped(features) ==
    FloatAll(<<
        Get(features, "rsi14", 50),
        Get(features, "macdLine", 0),
        Get(features, "macdSignal", 0),
        Get(features, "macdHist", 0),
        Get(features, "bbUpper", 0),
        Get(features, "bbMiddle", 0),
        Get(features, "bbLower", 0),
        Get(features, "atr14", 0),
        Get(features, "ema12", 0),
        Get(features, "ema26", 0),
        Get(features, "volume24hChange", 0),
        Get(features, "priceChange4h", 0),
        Get(features, "priceChange1h", 0),
        Get(features, "priceChange24h", 0),
        Get(features, "spreadPct", 0),
        Get(features, "confidence", 50) >>)

\* The list literal of predict, lines 151-168.
PredictVector(features) ==
    FloatAll(<<
        Get(features, "rsi14", 50),
        Get(features, "macdLine", 0),
        Get(features, "macdSignal", 0),
        Get(features, "macdHist", 0),
        Get(features, "bbUpper", 0),
        Get(features, "bbMiddle", 0),
        Get(features, "bbLower", 0),
        Get(features, "atr14", 0),
        Get(features, "ema12", 0),
        Get(features, "ema26", 0),
        Get(features, "volume24hChange", 0),
        Get(features, "priceChange1h", 0),
        Get(features, "priceChange4h", 0),
        Get(features, "priceChange24h", 0),
        Get(features, "spreadPct", 0),
        Get(features, "confidence", 50) >>)

\* json.loads(features_json) followed by the list literal, lines 149-168.
PredictFeatures(text) ==
    LET doc == JsonLoads(text)
    IN  IF ~doc.ok THEN Raised
        ELSE IF doc.val.kind # "object" THEN Raised
        ELSE PredictVector(doc.val.map)

\* ------------------------------------------------------------ samples file
\* labelWin: null, an integer (or boolean), or a value int() rejects.
LblNull == [null |-> TRUE, int |-> FALSE, v |-> 0]
LblInt(n) == [null |-> FALSE, int |-> TRUE, v |-> n]
LblBad == [null |-> FALSE, int |-> FALSE, v |-> 0]

NoFeatures == [kind |-> "none", wellFormed |-> TRUE, doc |-> JsonOther]
RsiOnly(n) == [k \in {"rsi14"} |-> Num(n)]

SampleKinds == {"open", "unlabeled", "win", "loss", "badfeat", "badlabel"}

\* The sample record each kind stands for.
SampleOf(kind) ==
    CASE kind = "open" ->
           [isComplete |-> FALSE, labelWin |-> LblInt(1),
            featuresJson |-> JsonObject(RsiOnly(70))]
      [] kind = "unlabeled" ->
           [isComplete |-> TRUE, labelWin |-> LblNull,
            featuresJson |-> JsonObject(RsiOnly(30))]
      [] kind = "win" ->
           [isComplete |-> TRUE, labelWin |-> LblInt(1),
            featuresJson |-> JsonObject(RsiOnly(70))]
      [] kind = "loss" ->
           [isComplete |-> TRUE, labelWin |-> LblInt(0),
            featuresJson |-> JsonText(JsonObject(RsiOnly(30)))]
      [] kind = "badfeat" ->
           [isComplete |-> TRUE, labelWin |-> LblInt(1),
            featuresJson |-> BadText]
      [] kind = "badlabel" ->
           [isComplete |-> TRUE, labelWin |-> LblBad,
            featuresJson |-> NoFeatures]

\* A samples file: missing, not JSON, or a list of samples written as a
\* pattern of kinds repeated reps times.
MissingFile == [kind |-> "missing", pattern |-> << >>, reps |-> 0]
MalformedFile == [kind |-> "malformed", pattern |-> << >>, reps |-> 0]
ListFile(pattern, reps) == [kind |-> "list", pattern |-> pattern, reps |-> reps]
NoFile == [kind |-> "unused", pattern |-> << >>, reps |-> 0]

NumSamples(file) == Len(file.pattern) * file.reps
SampleAt(file, i) == SampleOf(file.pattern[((i - 1) % Len(file.pattern)) + 1])

\* -------------------------------------------------------- dataset builder
\* s.get("isComplete") and s.get("labelWin") is not None, line 61.
IsTrainable(sample) == sample.isComplete /\ ~sample.labelWin.null

\* json.load(f), line 59: the samples, by position in the file.
Positions(file) == [i \in 1..NumSamples(file) |-> i]

\* The list comprehension of line 61, as the positions it keeps, in the
\* order of the iteration.
CompleteSamples(file) ==
    SelectSeq(Positions(file), LAMBDA i : IsTrainable(SampleAt(file, i)))

\* The threshold taken one too low.
NotEnoughSamplesOffByOne(n) == n < MinCompleteSamples - 1

\* len(complete_samples) < 50, line 63.
NotEnoughSamples(n) == n < MinCompleteSamples

\* The try block of lines 71-75 reaches the two appends: neither
\* extract_features_from_sample nor int() raised.
Vectorizes(sample) ==
    extract_features_from_sample(sample).ok /\ sample.labelWin.int

\* The rows inserted at the front instead of appended.
BuildXYNewestFirst(file, cs) ==
    LET rows == SelectSeq(cs, LAMBDA i : Vectorizes(SampleAt(file, i)))
        n == Len(rows)
    IN  [X |-> [k \in 1..n |-> rows[n + 1 - k]],
         y |-> [k \in 1..n |-> SampleAt(file, rows[n + 1 - k]).labelWin.v]]

\* The loop of lines 70-77: X and y get one entry, in the order of the
\* iteration, for each sample of cs the try block did not skip.
BuildXY(file, cs) ==
    LET rows == SelectSeq(cs, LAMBDA i : Vectorizes(SampleAt(file, i)))
    IN  [X |-> rows,
         y |-> [k \in 1..Len(rows) |-> SampleAt(file, rows[k]).labelWin.v]]

\* ------------------------------------------------- walk-forward evaluator
Min(a, b) == IF a < b THEN a ELSE b

\* min(5, len(X) // 20), line 82.
NSplits(n) == Min(MaxFolds, n \div FoldDivisor)

\* TimeSeriesSplit(n_splits=k) rejects k <= 1 with ValueError.
SplitterRejects(k) == k <= 1

\* tscv.split(X), line 89: fold j tests the j-th of the last k blocks of
\* n // (k + 1) rows and trains on every row before that block (0-based).
TimeSeriesSplit(n, k) ==
    LET testSize == n \div (k + 1)
        first == n - k * testSize
    IN  [j \in 1..k |->
            LET start == first + (j - 1) * testSize
            IN  [train |-> 0..(start - 1),
                 test |-> start..(start + testSize - 1)]]

\* RandomForestClassifier.fit(X, y), lines 110-118: the fitted model knows
\* the classes of y and was fitted on len(X) rows.
Fit(run, Xs, ys) ==
    [kind |-> "model", run |-> run, bytes |-> "full",
     classes |-> Cardinality({ ys[i] : i \in 1..Len(ys) }),
     rows |-> Len(Xs)]

\* ------------------------------------------------------------- the files
Absent == [kind |-> "absent", run |-> NoRun, bytes |-> "none", classes |-> 0, rows |-> 0]
Garbage == [kind |-> "garbage", run |-> NoRun, bytes |-> "full", classes |-> 0, rows |-> 0]
Unreadable == [kind |-> "unreadable", run |-> NoRun, bytes |-> "full", classes |-> 0, rows |-> 0]
PriorModel(bytes, classes) ==
    [kind |-> "model", run |-> PriorRun, bytes |-> bytes, classes |-> classes, rows |-> 60]

NoStatus == [kind |-> "absent", run |-> NoRun, nSamples |-> 0]
StatusOf(run, n) == [kind |-> "status", run |-> run, nSamples |-> n]

\* pickle.load(f), line 147: only a complete pickle loads.
Loads(file) == file.kind = "model" /\ file.bytes = "full"

\* ------------------------------------------------------------ the records
TrainFailure(msg) == [type |-> "train", success |-> FALSE, error |-> msg, score |-> 0, nSamples |-> 0]
TrainSuccess(n) == [type |-> "train", success |-> TRUE, error |-> "", score |-> 0, nSamples |-> n]
Score(s) == [type |-> "predict", success |-> TRUE, error |-> "", score |-> s, nSamples |-> 0]
Fallback(msg) == [type |-> "predict", success |-> TRUE, error |-> msg, score |-> FallbackScore, nSamples |-> 0]

\* predict_proba(X)[0][1] of a two-class model: some probability.
Probabilities == {0, 35, 100}

\* ================================================================== state
VARIABLES
    pc,            \* where each invocation is ("idle": never launched)
    libAvailable,  \* whether sklearn and numpy can be imported
    dirState,      \* MODEL_DIR: "dir", "absent", or "blocked" (missing and
                   \* not creatable: a dangling link, a read-only parent)
    artifact,      \* the file at MODEL_PATH
    status,        \* the file at STATUS_PATH
    samplesFile,   \* train's argument: the file at samples_path
    featuresJson,  \* predict's argument
    complete,      \* train's complete_samples
    X, y,          \* train's dataset
    folds,         \* the splits the evaluator iterated over
    finalModel,    \* train's final_model
    metrics,       \* train's metrics (nSamples)
    readBytes,     \* the content predict's pickle.load read
    predX,         \* predict's X[0]
    stdout,        \* the records each invocation printed
    exitCode,      \* the exit code of each finished invocation
    disk0,         \* the artifact and status before any invocation
    lastSuccess    \* the run that last printed success: true

vars == << pc, libAvailable, dirState, artifact, status, samplesFile,
           featuresJson, complete, X, y, folds, finalModel, metrics,
           readBytes, predX, stdout, exitCode, disk0, lastSuccess >>

envVars == << libAvailable, samplesFile, featuresJson, disk0 >>
trainLocals == << complete, X, y, folds, finalModel, metrics >>
predictLocals == << readBytes, predX >>

\* ----------------------------------------------------------------- inputs
Patterns == UNION { [1..n -> SampleKinds] : n \in 1..MaxPatternLen }

SampleLists ==
    { ListFile(pt, r) : pt \in Patterns, r \in 1..MaxSamples } 

TrainInputs ==
    { f \in SampleLists : NumSamples(f) <= MaxSamples }
        \cup {MissingFile, MalformedFile}

\* A few samples files, one per way a train run can go.
FewTrainInputs ==
    { MissingFile, MalformedFile,
      ListFile(<<"win", "loss">>, 24),
      ListFile(<<"win", "loss">>, 30),
      ListFile(<<"win", "badfeat">>, 30),
      ListFile(<<"win", "loss", "badlabel">>, 20),
      ListFile(<<"win">>, 50) }

FieldValues == {Num(7), NonNumeric}

FeatureMaps ==
    UNION { [S -> FieldValues] :
              S \in { T \in SUBSET FieldSet : Cardinality(T) <= MaxPresent } }

PredictInputs ==
    { JsonText(JsonObject(m)) : m \in FeatureMaps }
        \cup {BadText, JsonText(JsonOther)}

FewPredictInputs ==
    { JsonText(JsonObject(RsiOnly(70))), BadText }

NoArg == [kind |-> "unused", wellFormed |-> FALSE, doc |-> JsonOther]

DiskStates ==
    { [artifact |-> Absent, status |-> NoStatus],
      [artifact |-> PriorModel("full", 2), status |-> StatusOf(PriorRun, 60)] }

ArtifactStates ==
    { Absent, Garbage, Unreadable, PriorModel("empty", 2),
      PriorModel("partial", 2), PriorModel("full", 2), PriorModel("full", 1) }

DirStates == {"dir", "absent", "blocked"}

\* ------------------------------------------------------------------- Init
InitLocals ==
    /\ complete = [p \in Trainers |-> << >>]
    /\ X = [p \in Trainers |-> << >>]
    /\ y = [p \in Trainers |-> << >>]
    /\ folds = [p \in Trainers |-> << >>]
    /\ finalModel = [p \in Trainers |-> Absent]
    /\ metrics = [p \in Trainers |-> 0]
    /\ readBytes = [q \in Predictors |-> Absent]
    /\ predX = [q \in Predictors |-> << >>]
    /\ stdout = [p \in Procs |-> << >>]
    /\ exitCode = [p \in Procs |-> 0]
    /\ lastSuccess = disk0.artifact.run

\* One train run over every samples file, in a working environment.
InitTrain ==
    /\ pc = [p \in Procs |-> IF p = "t1" THEN "import" ELSE "idle"]
    /\ libAvailable = TRUE
    /\ dirState = "dir"
    /\ disk0 = [artifact |-> PriorModel("full", 2),
                status |-> StatusOf(PriorRun, 60)]
    /\ samplesFile \in { [p \in Trainers |-> IF p = "t1" THEN f ELSE NoFile] :
                           f \in TrainInputs }
    /\ featuresJson = [q \in Predictors |-> NoArg]

\* One train run over a few samples files, in every environment.
InitTrainEnv ==
    /\ pc = [p \in Procs |-> IF p = "t1" THEN "import" ELSE "idle"]
    /\ libAvailable \in BOOLEAN
    /\ dirState \in DirStates
    /\ disk0 \in DiskStates
    /\ samplesFile \in { [p \in Trainers |-> IF p = "t1" THEN f ELSE NoFile] :
                           f \in FewTrainInputs }
    /\ featuresJson = [q \in Predictors |-> NoArg]

\* One predict run over every feature map, directory and artifact.
InitPredict ==
    /\ pc = [p \in Procs |-> IF p \in Predictors THEN "mkdir" ELSE "idle"]
    /\ libAvailable = TRUE
    /\ dirState \in DirStates
    /\ disk0 \in { [artifact |-> a,
                    status |-> IF a.run = PriorRun THEN StatusOf(PriorRun, 60)
                               ELSE NoStatus] : a \in ArtifactStates }
    /\ samplesFile = [p \in Trainers |-> NoFile]
    /\ featuresJson \in [Predictors -> PredictInputs]

\* Two train runs and a predict run launched together.
InitOverlap ==
    /\ pc = [p \in Procs |-> IF p \in Predictors THEN "mkdir" ELSE "import"]
    /\ libAvailable = TRUE
    /\ dirState = "dir"
    /\ disk0 \in DiskStates
    /\ samplesFile \in [Trainers -> FewTrainInputs]
    /\ featuresJson \in [Predictors -> FewPredictInputs]

Init ==
    /\ InitTrain \/ InitTrainEnv \/ InitPredict \/ InitOverlap
    /\ artifact = disk0.artifact
    /\ status = disk0.status
    /\ InitLocals

\* ================================================================ actions
\* print(json.dumps(rec)); sys.exit(code) or return to __main__.
Finish(p, rec, code) ==
    /\ stdout' = [stdout EXCEPT ![p] = Append(@, rec)]
    /\ exitCode' = [exitCode EXCEPT ![p] = code]
    /\ pc' = [pc EXCEPT ![p] = "done"]

\* An exception nothing catches: a traceback on stderr, exit code 1.
Crash(p) ==
    /\ exitCode' = [exitCode EXCEPT ![p] = 1]
    /\ pc' = [pc EXCEPT ![p] = "done"]
    /\ UNCHANGED stdout

Goto(p, label) ==
    /\ pc' = [pc EXCEPT ![p] = label]
    /\ UNCHANGED << stdout, exitCode >>

\* ensure_model_dir, lines 16-18: TRUE when it returns, FALSE when
\* os.makedirs raises.
EnsureModelDirReturns(d) == d # "blocked"
EnsureModelDirLeaves(d) == IF d = "absent" THEN "dir" ELSE d

\* ------------------------------------------------------------------ train
\* lines 47-54
TImport(p) ==
    /\ pc[p] = "import"
    /\ IF libAvailable
       THEN Goto(p, "mkdir")
       ELSE Finish(p, TrainFailure("sklearn not installed"), 1)
    /\ UNCHANGED << envVars, dirState, artifact, status, trainLocals,
                    predictLocals, lastSuccess >>

\* line 56
TEnsureDir(p) ==
    /\ pc[p] = "mkdir"
    /\ IF EnsureModelDirReturns(dirState)
       THEN /\ dirState' = EnsureModelDirLeaves(dirState)
            /\ Goto(p, "read")
       ELSE /\ Crash(p)
            /\ UNCHANGED dirState
    /\ UNCHANGED << envVars, artifact, status, trainLocals, predictLocals,
                    lastSuccess >>

\* lines 58-65
TRead(p) ==
    /\ pc[p] = "read"
    /\ IF samplesFile[p].kind # "list"
       THEN /\ Crash(p)
            /\ UNCHANGED complete
       ELSE LET cs == CompleteSamples(samplesFile[p])
            IN  /\ complete' = [complete EXCEPT ![p] = cs]
                /\ IF NotEnoughSamples(Len(cs))
                   THEN Finish(p, TrainFailure("Not enough samples"), 1)
                   ELSE Goto(p, "build")
    /\ UNCHANGED << envVars, dirState, artifact, status, X, y, folds,
                    finalModel, metrics, predictLocals, lastSuccess >>

\* lines 67-80
TBuild(p) ==
    /\ pc[p] = "build"
    /\ LET d == BuildXY(samplesFile[p], complete[p])
       IN  /\ X' = [X EXCEPT ![p] = d.X]
           /\ y' = [y EXCEPT ![p] = d.y]
    /\ Goto(p, "cv")
    /\ UNCHANGED << envVars, dirState, artifact, status, complete, folds,
                    finalModel, metrics, predictLocals, lastSuccess >>

\* lines 82-108
TCrossValidate(p) ==
    /\ pc[p] = "cv"
    /\ LET k == NSplits(Len(X[p]))
       IN  IF SplitterRejects(k)
           THEN /\ Crash(p)
                /\ UNCHANGED folds
           ELSE /\ folds' = [folds EXCEPT ![p] = TimeSeriesSplit(Len(X[p]), k)]
                /\ Goto(p, "fit")
    /\ UNCHANGED << envVars, dirState, artifact, status, complete, X, y,
                    finalModel, metrics, predictLocals, lastSuccess >>

\* lines 110-118
TFit(p) ==
    /\ pc[p] = "fit"
    /\ finalModel' = [finalModel EXCEPT ![p] = Fit(p, X[p], y[p])]
    /\ Goto(p, "open_model")
    /\ UNCHANGED << envVars, dirState, artifact, status, complete, X, y,
                    folds, metrics, predictLocals, lastSuccess >>

\* What a write of `bytes` of p's pickle can leave in the file: the bytes,
\* or a mix when another run truncated or wrote the file since p opened it.
AfterWrite(p, bytes) ==
    LET mine == [finalModel[p] EXCEPT !.bytes = bytes]
    IN  IF artifact.kind = "model" /\ artifact.run = p
        THEN {mine}
        ELSE {mine, Garbage}

\* line 120: open(MODEL_PATH, 'wb') truncates the file, or raises.
TOpenModel(p) ==
    /\ pc[p] = "open_model"
    /\ \/ /\ artifact' = [finalModel[p] EXCEPT !.bytes = "empty"]
          /\ Goto(p, "dump")
       \/ /\ Crash(p)
          /\ UNCHANGED artifact
    /\ UNCHANGED << envVars, dirState, status, trainLocals, predictLocals,
                    lastSuccess >>

\* line 121: pickle.dump writes the pickle through the file's buffer, a
\* block at a time.
TDump(p) ==
    /\ pc[p] = "dump"
    /\ artifact' \in AfterWrite(p, "partial")
    /\ Goto(p, "dump_rest")
    /\ UNCHANGED << envVars, dirState, status, trainLocals, predictLocals,
                    lastSuccess >>

\* line 121, the last block and the close; or the write raises (disk full).
TDumpRest(p) ==
    /\ pc[p] = "dump_rest"
    /\ \/ /\ artifact' \in AfterWrite(p, "full")
          /\ Goto(p, "status")
       \/ /\ Crash(p)
          /\ UNCHANGED artifact
    /\ UNCHANGED << envVars, dirState, status, trainLocals, predictLocals,
                    lastSuccess >>

\* "nSamples": len(complete_samples), line 128.
NSamplesReported(p) == Len(complete[p])

\* lines 123-133
TWriteStatus(p) ==
    /\ pc[p] = "status"
    /\ metrics' = [metrics EXCEPT ![p] = NSamplesReported(p)]
    /\ \/ /\ status' = StatusOf(p, NSamplesReported(p))
          /\ Goto(p, "print")
       \/ /\ Crash(p)
          /\ UNCHANGED status
    /\ UNCHANGED << envVars, dirState, artifact, complete, X, y, folds,
                    finalModel, predictLocals, lastSuccess >>

\* line 135
TPrint(p) ==
    /\ pc[p] = "print"
    /\ Finish(p, TrainSuccess(metrics[p]), 0)
    /\ lastSuccess' = p
    /\ UNCHANGED << envVars, dirState, artifact, status, trainLocals,
                    predictLocals >>

\* ---------------------------------------------------------------- predict
\* line 139
PEnsureDir(q) ==
    /\ pc[q] = "mkdir"
    /\ IF EnsureModelDirReturns(dirState)
       THEN /\ dirState' = EnsureModelDirLeaves(dirState)
            /\ Goto(q, "exists")
       ELSE /\ Crash(q)
            /\ UNCHANGED dirState
    /\ UNCHANGED << envVars, artifact, status, trainLocals, predictLocals,
                    lastSuccess >>

\* lines 141-143
PExists(q) ==
    /\ pc[q] = "exists"
    /\ IF artifact.kind = "absent"
       THEN Finish(q, Fallback("Model not found"), 0)
       ELSE Goto(q, "load")
    /\ UNCHANGED << envVars, dirState, artifact, status, trainLocals,
                    predictLocals, lastSuccess >>

\* lines 145-147 and 175-176
PLoad(q) ==
    /\ pc[q] = "load"
    /\ readBytes' = [readBytes EXCEPT ![q] = artifact]
    /\ IF Loads(artifact)
       THEN Goto(q, "score")
       ELSE Finish(q, Fallback("load failed"), 0)
    /\ UNCHANGED << envVars, dirState, artifact, status, trainLocals, predX,
                    lastSuccess >>

\* lines 149-176
PScore(q) ==
    /\ pc[q] = "score"
    /\ LET v == PredictFeatures(featuresJson[q])
       IN  IF ~v.ok
           THEN /\ Finish(q, Fallback("bad features"), 0)
                /\ UNCHANGED predX
           ELSE /\ predX' = [predX EXCEPT ![q] = v.val]
                /\ IF readBytes[q].classes > 1
                   THEN \E s \in Probabilities : Finish(q, Score(s), 0)
                   ELSE Finish(q, Score(FallbackScore), 0)
    /\ UNCHANGED << envVars, dirState, artifact, status, trainLocals,
                    readBytes, lastSuccess >>

\* ------------------------------------------------------------------- Next
Next ==
    \/ \E p \in Trainers :
         \/ TImport(p)
         \/ TEnsureDir(p)
         \/ TRead(p)
         \/ TBuild(p)
         \/ TCrossValidate(p)
         \/ TFit(p)
         \/ TOpenModel(p)
         \/ TDump(p)
         \/ TDumpRest(p)
         \/ TWriteStatus(p)
         \/ TPrint(p)
    \/ \E q \in Predictors :
         \/ PEnsureDir(q)
         \/ PExists(q)
         \/ PLoad(q)
         \/ PScore(q)

Spec == Init /\ [][Next]_vars

\* ============================================================= properties
Max(a, b) == IF a > b THEN a ELSE b

Finished(p) == pc[p] = "done"
NoTrainRunning == \A p \in Trainers : pc[p] \in {"idle", "done"}
OnlyTrainer(p) == \A r \in Trainers \ {p} : pc[r] = "idle"

\* train got as far as the sample-count check: the imports, the directory
\* and the samples file were all fine.
ReachedCount(p) ==
    /\ pc[p] \notin {"idle", "import", "mkdir", "read"}
    /\ libAvailable
    /\ dirState = "dir"
    /\ samplesFile[p].kind = "list"

\* The complete and labeled samples of a file, and the usable ones among
\* them (those that also vectorize), counted from the file itself.
TrainablePositions(file) ==
    { i \in 1..NumSamples(file) :
        SampleAt(file, i).isComplete /\ ~SampleAt(file, i).labelWin.null }
UsablePositions(file) ==
    { i \in TrainablePositions(file) : Vectorizes(SampleAt(file, i)) }

WroteArtifact(p) == artifact.kind = "model" /\ artifact.run = p

\* C1: every predict invocation ends with exit code 0 and exactly one
\* record holding a score, and that record is {score: 0.5, error} whenever
\* the artifact did not load or the feature map did not vectorize.
PredictNeverRaises ==
    \A q \in Predictors :
        Finished(q) =>
            /\ exitCode[q] = 0
            /\ Len(stdout[q]) = 1
            /\ stdout[q][1].type = "predict"
            /\ (~Loads(readBytes[q]) \/ ~PredictFeatures(featuresJson[q]).ok)
                 => /\ stdout[q][1].score = FallbackScore
                    /\ stdout[q][1].error # ""

\* C2: a train run that finds the library missing, or fewer than 50
\* complete and labeled samples, prints one {success: false, error} record,
\* exits non-zero and leaves the artifact and the status file as they were.
FailingTrainLeavesDiskUntouched ==
    \A p \in Trainers :
        Finished(p) =>
            /\ ~libAvailable
                 => /\ stdout[p] = << TrainFailure("sklearn not installed") >>
                    /\ exitCode[p] # 0
            /\ (ReachedCount(p)
                  /\ Cardinality(TrainablePositions(samplesFile[p]))
                       < MinCompleteSamples)
                 => /\ stdout[p] = << TrainFailure("Not enough samples") >>
                    /\ exitCode[p] # 0
            /\ (OnlyTrainer(p) /\ Len(stdout[p]) = 1 /\ ~stdout[p][1].success)
                 => /\ artifact = disk0.artifact
                    /\ status = disk0.status

FailingTrainWitness ==
    \E p \in Trainers :
        /\ Finished(p)
        /\ OnlyTrainer(p)
        /\ stdout[p] = << TrainFailure("Not enough samples") >>
        /\ Len(complete[p]) = MinCompleteSamples - 1
        /\ exitCode[p] = 1
        /\ disk0.artifact = PriorModel("full", 2)
        /\ artifact = disk0.artifact
        /\ status = StatusOf(PriorRun, 60)

\* C3: the content predict loads from the artifact path is the complete
\* previous artifact or a complete new one, never an empty or partly
\* written file.
ArtifactWriteAtomic ==
    \A q \in Predictors :
        (disk0 \in DiskStates /\ readBytes[q] # Absent)
            => \/ readBytes[q] = disk0.artifact
               \/ \E p \in Trainers : readBytes[q] = finalModel[p]

\* C4: every train invocation ends having printed exactly one record,
\* {success: true, metrics} or {success: false, error} with a non-zero
\* exit.
TrainPrintsOneRecord ==
    \A p \in Trainers :
        Finished(p) =>
            /\ Len(stdout[p]) = 1
            /\ stdout[p][1].type = "train"
            /\ \/ stdout[p][1].success /\ exitCode[p] = 0
               \/ /\ ~stdout[p][1].success
                  /\ stdout[p][1].error # ""
                  /\ exitCode[p] # 0

\* C5: with fewer than 50 usable samples (complete, labeled and
\* vectorized) train fails with the insufficient-data error and neither
\* fits nor persists a model.
InsufficientUsableFails ==
    \A p \in Trainers :
        (Finished(p) /\ ReachedCount(p)
           /\ Cardinality(UsablePositions(samplesFile[p])) < MinCompleteSamples)
            => /\ stdout[p] = << TrainFailure("Not enough samples") >>
               /\ exitCode[p] # 0
               /\ finalModel[p] = Absent
               /\ ~WroteArtifact(p)

\* C6: the nSamples of the success record and of the status file is the
\* number of rows the model was fitted on.
NSamplesIsRowsFitted ==
    \A p \in Trainers :
        (Finished(p) /\ Len(stdout[p]) = 1 /\ stdout[p][1].success)
            => /\ stdout[p][1].nSamples = finalModel[p].rows
               /\ (status.run = p => status.nSamples = finalModel[p].rows)

\* C7: once the sample-count check has passed, the evaluator runs over
\* max(1, min(5, len(X) // 20)) folds and does not abort the run.
FoldCountFlooredToOne ==
    \A p \in Trainers :
        (ReachedCount(p) /\ Len(complete[p]) >= MinCompleteSamples
           /\ pc[p] \notin {"build", "cv"})
            => Len(folds[p]) = Max(1, Min(MaxFolds, Len(X[p]) \div FoldDivisor))

\* C8: X holds the complete, labeled samples that vectorize in the order
\* of the samples file, and in every fold each training row comes from an
\* earlier sample than each test row.
NoLookahead ==
    \A p \in Trainers :
        /\ pc[p] \in {"build", "cv"}
             => /\ \A i \in 1..(Len(complete[p]) - 1) :
                      complete[p][i] < complete[p][i + 1]
                /\ { complete[p][i] : i \in 1..Len(complete[p]) }
                      = TrainablePositions(samplesFile[p])
        /\ pc[p] = "cv"
             => /\ \A i \in 1..(Len(X[p]) - 1) : X[p][i] < X[p][i + 1]
                /\ { X[p][i] : i \in 1..Len(X[p]) }
                      = UsablePositions(samplesFile[p])
        /\ pc[p] = "fit"
             => \A j \in 1..Len(folds[p]) :
                  /\ folds[p][j].train # {}
                  /\ folds[p][j].test # {}
                  /\ folds[p][j].train \cup folds[p][j].test
                        \subseteq 0..(Len(X[p]) - 1)
                  /\ \A a \in folds[p][j].train : \A b \in folds[p][j].test :
                        a < b /\ X[p][a + 1] < X[p][b + 1]

NoLookaheadWitness ==
    \E p \in Trainers :
        /\ pc[p] = "fit"
        /\ Len(X[p]) = 52
        /\ Len(complete[p]) < NumSamples(samplesFile[p])
        /\ folds[p] = << [train |-> 0..17, test |-> 18..34],
                         [train |-> 0..34, test |-> 35..51] >>

\* The default the field table documents for the i-th field.
DocumentedDefault(i) ==
    IF FieldNames[i] \in {"rsi14", "confidence"}
    THEN DefaultNeutral ELSE DefaultZero

AsSample(fj) == [isComplete |-> TRUE, labelWin |-> LblInt(1), featuresJson |-> fj]

\* C9: for every feature map, predict and extract_features_from_sample
\* build the same vector: 16 entries in the order of the field table, a
\* present field's value or else its documented default.
VectorizersAgree ==
    \A q \in Predictors :
        (pc[q] # "idle" /\ featuresJson[q].wellFormed
           /\ featuresJson[q].doc.kind = "object")
            => LET text == featuresJson[q]
                   map == text.doc.map
                   v == PredictFeatures(text)
               IN  /\ v = extract_features_from_sample(AsSample(text))
                   /\ v = extract_features_from_sample(AsSample(text.doc))
                   /\ v.ok = (\A k \in DOMAIN map : map[k].num)
                   /\ v.ok =>
                        /\ Len(v.val) = 16
                        /\ \A i \in 1..16 :
                             v.val[i] = IF FieldNames[i] \in DOMAIN map
                                        THEN map[FieldNames[i]].v
                                        ELSE DocumentedDefault(i)
                   /\ predX[q] # << >> => predX[q] = v.val

VectorizersAgreeWitness ==
    \E q \in Predictors :
        /\ Finished(q)
        /\ Len(predX[q]) = 16
        /\ DOMAIN featuresJson[q].doc.map = {"macdHist", "confidence"}
        /\ predX[q][4] = 7 /\ predX[q][16] = 7
        /\ predX[q][1] = 50 /\ predX[q][2] = 0
        /\ stdout[q][1].error = ""

\* C10: whenever no train invocation is in progress, the status file and
\* the artifact come from the same run, the last one that printed success.
StatusMatchesArtifact ==
    NoTrainRunning =>
        /\ artifact.run = status.run
        /\ artifact.run = lastSuccess

====
